---- MODULE Spec2Model ----
(***************************************************************************)
(* terraform-provider-demoapp: the provider's Configure, the item adapter  *)
(* (POST/GET/PUT/DELETE /api/items[/{id}]) and the display adapter         *)
(* (POST/GET /api/display), together with the caller's persisted state and *)
(* the remote service the adapters talk to.                                *)
(*                                                                         *)
(* Every handler blocks once, in HTTPClient.Do.  A handler is therefore    *)
(* two steps: the part up to and including the send (ItemCreate, ...) and  *)
(* the part after Do returns (ItemCreateDone, ...).  Between the two the   *)
(* service answers the request (ServeItems, ServeDisplay) or the exchange  *)
(* fails at transport level (ConnectionRefused, ResponseLost), and the     *)
(* handlers of the other declared resources may run.                       *)
(***************************************************************************)
EXTENDS Integers, Sequences, FiniteSets, TLC

\* ------------------------------------------------------------------ bounds

\* Number of items the remote service creates before it stops accepting POSTs.
MaxCreates == 2

\* The id the remote service assigns first (9, so that ids cross into two digits).
FirstId == 9

\* ------------------------------------------------------- types.String values

StringNull == [null |-> TRUE, unknown |-> FALSE, value |-> ""]

StringUnknown == [null |-> FALSE, unknown |-> TRUE, value |-> ""]

StringValue(s) == [null |-> FALSE, unknown |-> FALSE, value |-> s]

\* types.String.ValueString: the empty string for null and unknown.
ValueString(x) == IF x.null \/ x.unknown THEN "" ELSE x.value

IsNull(x) == x.null

\* ------------------------------------------------------------ strconv.Itoa

Digits == <<"0", "1", "2", "3", "4", "5", "6", "7", "8", "9">>

RECURSIVE ItoaNat(_)
ItoaNat(n) == IF n < 10 THEN <<Digits[n + 1]>>
              ELSE Append(ItoaNat(n \div 10), Digits[(n % 10) + 1])

\* strconv.Itoa on the non-negative ids of the model: the decimal digits.
Itoa(n) == ItoaNat(n)

\* ------------------------------------------------------- encoding/json.Valid

At(s, i) == IF i \in 1..Len(s) THEN s[i] ELSE "EOF"

IsWs(c) == c \in {" ", "\t", "\n", "\r"}

IsDigit(c) == c \in {"0", "1", "2", "3", "4", "5", "6", "7", "8", "9"}

RECURSIVE SkipWs(_, _)
SkipWs(s, i) == IF IsWs(At(s, i)) THEN SkipWs(s, i + 1) ELSE i

\* The index after the closing quote of the string literal whose body starts at i; 0: none.
RECURSIVE ScanString(_, _)
ScanString(s, i) ==
    CASE At(s, i) = "EOF" -> 0
      [] At(s, i) = "\"" -> i + 1
      [] At(s, i) = "\\" -> IF At(s, i + 1) = "EOF" THEN 0 ELSE ScanString(s, i + 2)
      [] OTHER -> ScanString(s, i + 1)

ParseString(s, i) == IF At(s, i) = "\"" THEN ScanString(s, i + 1) ELSE 0

RECURSIVE ScanDigits(_, _)
ScanDigits(s, i) == IF IsDigit(At(s, i)) THEN ScanDigits(s, i + 1) ELSE i

\* An integer literal: 0, or a non-zero digit followed by digits.
ParseNumber(s, i) ==
    CASE At(s, i) = "0" -> i + 1
      [] IsDigit(At(s, i)) -> ScanDigits(s, i + 1)
      [] OTHER -> 0

RECURSIVE ParseValue(_, _)
RECURSIVE ParseMembers(_, _)
RECURSIVE ParseElements(_, _)

\* The index after the JSON value that starts at i; 0 when there is none.
ParseValue(s, i) ==
    CASE At(s, i) = "{" ->
            LET j == SkipWs(s, i + 1)
            IN  IF At(s, j) = "}" THEN j + 1 ELSE ParseMembers(s, j)
      [] At(s, i) = "[" ->
            LET j == SkipWs(s, i + 1)
            IN  IF At(s, j) = "]" THEN j + 1 ELSE ParseElements(s, j)
      [] At(s, i) = "\"" -> ParseString(s, i)
      [] At(s, i) = "-" -> ParseNumber(s, i + 1)
      [] IsDigit(At(s, i)) -> ParseNumber(s, i)
      [] OTHER -> 0

ParseMembers(s, i) ==
    LET k == ParseString(s, i)
        c == SkipWs(s, k)
        v == IF k # 0 /\ At(s, c) = ":" THEN ParseValue(s, SkipWs(s, c + 1)) ELSE 0
        e == SkipWs(s, v)
    IN  CASE v = 0 -> 0
          [] At(s, e) = "," -> ParseMembers(s, SkipWs(s, e + 1))
          [] At(s, e) = "}" -> e + 1
          [] OTHER -> 0

ParseElements(s, i) ==
    LET v == ParseValue(s, i)
        e == SkipWs(s, v)
    IN  CASE v = 0 -> 0
          [] At(s, e) = "," -> ParseElements(s, SkipWs(s, e + 1))
          [] At(s, e) = "]" -> e + 1
          [] OTHER -> 0

\* json.Valid: one JSON value, surrounded by optional white space, and nothing else.
JsonValid(s) ==
    LET v == ParseValue(s, SkipWs(s, 1))
    IN  v # 0 /\ SkipWs(s, v) = Len(s) + 1

\* ------------------------------------------------- configuration and inputs

\* The resource instances a configuration may declare.
ItemRes == {"item1", "item2"}

DisplayRes == {"display1", "display2"}

\* The endpoint of examples/main.tf.
ExampleEndpoint == StringValue("http://localhost:8080")

\* provider "demoapp" { endpoint = ... }: omitted, empty, well-formed, or not a URL.
ConfigEndpoints == {StringNull, StringValue(""), StringValue("http://localhost:8080"),
                    StringValue("://localhost")}

\* The values of DEMOAPP_ENDPOINT ("" when unset).
EnvEndpoints == {"", "http://demoapp:8080"}

Names == {"Web Server", "Web Server v2"}

Descriptions == {StringNull, StringValue("nginx frontend")}

ItemPlans == [Name : {StringValue(n) : n \in Names}, Description : Descriptions]

\* What is applied: several items or several displays created side by side under
\* the endpoint of examples/main.tf, each with the attributes its block declares
\* (docs/resources/display.md warns about several displays); or one item or one
\* display, under every provider configuration, re-applied with changed attributes.
Scenarios ==
    {[declared |-> d, config |-> ExampleEndpoint, env |-> ""] :
        d \in {{"item1", "item2"}, {"display1", "display2"}}}
    \cup
    {[declared |-> d, config |-> c, env |-> e] :
        d \in {{"item1"}, {"display1"}}, c \in ConfigEndpoints, e \in EnvEndpoints}

\* The display payloads: {}, {"a":1}, the same with white space, and "{not".
PayloadEmpty == <<"{", "}">>

PayloadA == <<"{", "\"", "a", "\"", ":", "1", "}">>

PayloadSpaced == <<"{", " ", "\"", "a", "\"", ":", " ", "1", " ", "}">>

PayloadInvalid == <<"{", "n", "o", "t">>

Payloads == {PayloadEmpty, PayloadA, PayloadSpaced, PayloadInvalid}

\* ------------------------------------------------------------------- state

VARIABLES
    provider,       \* DemoAppProvider.Configure's request and response
    declared,       \* the resource instances of the configuration
    state,          \* the caller's persisted state, per resource instance
    call,           \* the handler in flight per resource instance, blocked in Do
    diag,           \* the diagnostics of the handler that last returned, per instance
    remoteItems,    \* the remote service's items, by id
    nextId,         \* the id the remote service assigns next
    remoteDisplay   \* the remote service's display value

vars == <<provider, declared, state, call, diag, remoteItems, nextId, remoteDisplay>>

Res == ItemRes \cup DisplayRes

Ids == FirstId .. (FirstId + MaxCreates - 1)

\* A nil *DemoAppClient, and the one Configure builds.
NilClient == [nil |-> TRUE, Endpoint |-> "", Timeout |-> 0]

TimeoutSeconds == 30

DemoAppClient(endpoint) == [nil |-> FALSE, Endpoint |-> endpoint, Timeout |-> TimeoutSeconds]

\* No record in persisted state.
Absent == [exists |-> FALSE]

Idle == [pc |-> "idle"]

\* Request and response bodies.
NoBody == [kind |-> "none"]

ItemJson(id, name, description) ==
    [kind |-> "item", id |-> id, name |-> name, description |-> description]

ErrorJson == [kind |-> "error"]

RawBody(text) == [kind |-> "raw", text |-> text]

Truncated == [kind |-> "truncated"]

\* The diagnostics of an instance no handler has run for.
NoDiag ==
    [op |-> "none", err |-> "none", status |-> 0, body |-> NoBody, sent |-> <<>>,
     input |-> <<>>]

NoItem == [exists |-> FALSE]

Init ==
    /\ \E s \in Scenarios :
         /\ provider = [configured |-> FALSE, config |-> s.config, env |-> s.env,
                        err |-> "none", ResourceData |-> NilClient,
                        DataSourceData |-> NilClient]
         /\ declared = s.declared
    /\ state = [r \in Res |-> Absent]
    /\ call = [r \in Res |-> Idle]
    /\ diag = [r \in Res |-> NoDiag]
    /\ remoteItems = [i \in Ids |-> NoItem]
    /\ nextId = FirstId
    /\ remoteDisplay = PayloadEmpty

\* ------------------------------------------------ DemoAppProvider.Configure

\* A mutant of ResolveEndpoint: an empty configured endpoint counts as unset and
\* gives way to the environment variable.
ResolveEndpointEmptyAsUnset(config, env) ==
    IF ValueString(config) # "" THEN ValueString(config) ELSE env

\* A mutant of ResolveEndpoint: a set environment variable wins over the
\* configured endpoint.
ResolveEndpointEnvFirst(config, env) == IF env # "" THEN env ELSE ValueString(config)

\* The endpoint Configure resolves: the environment variable's value, replaced
\* by the configured endpoint when that is not null.
ResolveEndpoint(config, env) == IF ~IsNull(config) THEN ValueString(config) ELSE env

\* A mutant of Configure: the check of the empty endpoint is left out.
ConfigureUnchecked ==
    /\ ~provider.configured
    /\ LET client == DemoAppClient(ResolveEndpoint(provider.config, provider.env))
       IN  provider' = [provider EXCEPT !.configured = TRUE,
                                        !.ResourceData = client,
                                        !.DataSourceData = client]
    /\ UNCHANGED <<declared, state, call, diag, remoteItems, nextId, remoteDisplay>>

\* provider.config is req.Config's endpoint and provider.env the value of
\* DEMOAPP_ENDPOINT; Configure runs once.
Configure ==
    /\ ~provider.configured
    /\ LET endpoint == ResolveEndpoint(provider.config, provider.env)
           client == DemoAppClient(endpoint)
       IN  provider' =
             IF endpoint = ""
             THEN [provider EXCEPT !.configured = TRUE,
                                   !.err = "Missing Demo App Endpoint"]
             ELSE [provider EXCEPT !.configured = TRUE,
                                   !.ResourceData = client,
                                   !.DataSourceData = client]
    /\ UNCHANGED <<declared, state, call, diag, remoteItems, nextId, remoteDisplay>>

\* ItemResource.Configure / DisplayResource.Configure: r.client is the provider's
\* ResourceData, the one client every resource instance shares.
Client == provider.ResourceData

\* The handlers of a declared instance run once the provider handed out its client,
\* one at a time per instance.
Ready(r) == r \in declared /\ ~Client.nil /\ call[r].pc = "idle"

\* -------------------------------------------------------------- net/http

Url(path, id) == [base |-> Client.Endpoint, path |-> path, id |-> id]

\* http.NewRequestWithContext fails when the URL does not parse: "://localhost"
\* has no protocol scheme.
NewRequestOK(url) == url.base # "://localhost"

Request(method, url, body) == [method |-> method, url |-> url, body |-> body]

\* The diagnostics of a handler that returned.
Diag(op, err, status, sent, input) ==
    [op |-> op, err |-> err, status |-> status, body |-> NoBody, sent |-> sent,
     input |-> input]

\* What HTTPClient.Do returned to the handler blocked in call c: 0 for an
\* error, the status code of the response otherwise.
StatusOf(c) == IF c.pc = "failed" THEN 0 ELSE c.resp.status

\* json.NewDecoder(body).Decode(&apiResponse) into an itemAPIModel: fails on a
\* body that is not a complete JSON value, leaves the zero value in every field
\* the object does not have.
Decode(body) ==
    CASE body.kind = "item" ->
           [ok |-> TRUE, ID |-> body.id, Name |-> body.name, Description |-> body.description]
      [] body.kind = "error" ->
           [ok |-> TRUE, ID |-> 0, Name |-> "", Description |-> ""]
      [] OTHER ->
           [ok |-> FALSE, ID |-> 0, Name |-> "", Description |-> ""]

\* json.Marshal of an itemAPIModel: all three fields, none omitted.
Marshal(m) == ItemJson(m.ID, m.Name, m.Description)

\* A handler blocked in HTTPClient.Do: its plan or prior state, its request, the
\* methods of the requests it has issued, and (once answered) the response.
\* follows names the Create or Update that returned without error just before
\* this handler was invoked on the same instance ("none" when there was none).
NoResponse == [status |-> 0, body |-> NoBody]

Writes == {"ItemCreate", "ItemUpdate", "DisplayCreate", "DisplayUpdate"}

Follows(r) == IF diag[r].op \in Writes /\ diag[r].err = "none" THEN diag[r].op ELSE "none"

Sent(r, op, model, req) ==
    [pc |-> "sent", op |-> op, model |-> model, req |-> req,
     sent |-> <<req.method>>, resp |-> NoResponse,
     follows |-> Follows(r)]

Returned(c) == c.pc \in {"answered", "failed"}

\* A handler that returns before it sends anything.
ReturnEarly(r, d) ==
    /\ diag' = [diag EXCEPT ![r] = d]
    /\ UNCHANGED <<call, state>>

\* A handler that sends its request and blocks in Do; its diagnostics start empty.
Send(r, c) ==
    /\ call' = [call EXCEPT ![r] = c]
    /\ diag' = [diag EXCEPT ![r] = NoDiag]
    /\ UNCHANGED state

\* fmt.Sprintf("API returned status %d: %s", httpResp.StatusCode, string(body)):
\* the diagnostic of an unexpected status carries the response's body.
WithBody(d, c) == IF d.err = "API returned status" THEN [d EXCEPT !.body = c.resp.body] ELSE d

\* A handler that returns after Do: the framework persists newState.
Return(r, d, newState) ==
    /\ diag' = [diag EXCEPT ![r] = WithBody(d, call[r])]
    /\ state' = [state EXCEPT ![r] = newState]
    /\ call' = [call EXCEPT ![r] = Idle]

\* ------------------------------------------------------------ item adapter

ItemModel(id, name, description) ==
    [exists |-> TRUE, ID |-> id, Name |-> name, Description |-> description]

\* A mutant of ItemRequestBody: a null description is sent as the text null.
ItemRequestBodyNullText(plan) ==
    Marshal([ID |-> 0, Name |-> ValueString(plan.Name),
             Description |-> IF IsNull(plan.Description) THEN "null"
                             ELSE ValueString(plan.Description)])

\* requestBody := itemAPIModel{Name: ..., Description: ...}; json.Marshal(requestBody)
ItemRequestBody(plan) ==
    Marshal([ID |-> 0, Name |-> ValueString(plan.Name),
             Description |-> ValueString(plan.Description)])

\* The plans of item r: every plan when r is declared alone, the attributes of
\* its block when it is declared beside another item.
PlansFor(r) ==
    IF declared = {r} THEN ItemPlans
    ELSE IF r = "item1"
         THEN {[Name |-> StringValue("Web Server"), Description |-> StringValue("nginx frontend")]}
         ELSE {[Name |-> StringValue("Web Server v2"), Description |-> StringNull]}

\* ---- Create

ItemCreateOK(status) == status = 201 \/ status = 200

ItemCreateErr(c) ==
    IF c.pc = "failed" THEN "Could not send HTTP request"
    ELSE IF ~ItemCreateOK(c.resp.status) THEN "API returned status"
    ELSE IF ~Decode(c.resp.body).ok THEN "Could not parse API response"
    ELSE "none"

\* A mutant of ItemCreateModel: only the id is taken from the response, name and
\* description stay as the caller planned them.
ItemCreateModelKeepPlan(plan, api) ==
    ItemModel(StringValue(Itoa(api.ID)), plan.Name, plan.Description)

\* plan.ID, plan.Name, plan.Description from the API response
ItemCreateModel(plan, api) ==
    ItemModel(StringValue(Itoa(api.ID)), StringValue(api.Name), StringValue(api.Description))

\* A mutant of ItemCreateState: the decoded response is kept in a field the
\* instances share, so a handler may store the response of another one's Create.
ItemCreateStateShared(prior, c) ==
    IF ItemCreateErr(c) # "none" THEN prior
    ELSE LET x == CHOOSE y \in ItemRes :
                    /\ call[y].pc = "answered" /\ call[y].op = "ItemCreate"
                    /\ ItemCreateErr(call[y]) = "none"
         IN  ItemCreateModel(c.model, Decode(call[x].resp.body))

\* resp.State of Create starts empty and is set on the success path only: after
\* an error the caller's state holds what it held.
ItemCreateState(prior, c) ==
    IF ItemCreateErr(c) = "none" THEN ItemCreateModel(c.model, Decode(c.resp.body))
    ELSE prior

ItemCreate(r, plan) ==
    /\ r \in ItemRes /\ Ready(r) /\ ~state[r].exists
    /\ LET url == Url("/api/items", <<>>)
           model == ItemModel(StringUnknown, plan.Name, plan.Description)
       IN  IF ~NewRequestOK(url)
           THEN ReturnEarly(r, Diag("ItemCreate", "Could not create HTTP request", 0, <<>>, <<>>))
           ELSE Send(r, Sent(r, "ItemCreate", model, Request("POST", url, ItemRequestBody(plan))))
    /\ UNCHANGED <<provider, declared, remoteItems, nextId, remoteDisplay>>

\* A mutant of ItemCreateDone: after a failure of Do the POST is sent once more.
ItemCreateDoneRetry(r) ==
    /\ r \in ItemRes /\ Returned(call[r]) /\ call[r].op = "ItemCreate"
    /\ IF call[r].pc = "failed" /\ Len(call[r].sent) < 2
       THEN /\ call' = [call EXCEPT ![r].pc = "sent", ![r].sent = Append(@, "POST")]
            /\ UNCHANGED <<diag, state>>
       ELSE Return(r, Diag("ItemCreate", ItemCreateErr(call[r]), StatusOf(call[r]),
                           call[r].sent, <<>>),
                   ItemCreateState(state[r], call[r]))
    /\ UNCHANGED <<provider, declared, remoteItems, nextId, remoteDisplay>>

ItemCreateDone(r) ==
    /\ r \in ItemRes /\ Returned(call[r]) /\ call[r].op = "ItemCreate"
    /\ Return(r, Diag("ItemCreate", ItemCreateErr(call[r]), StatusOf(call[r]), call[r].sent, <<>>),
              ItemCreateState(state[r], call[r]))
    /\ UNCHANGED <<provider, declared, remoteItems, nextId, remoteDisplay>>

\* ---- Read

\* A mutant of ItemReadNotFound: no status is taken for "not found".
ItemReadNotFoundNever(status) == FALSE

ItemReadNotFound(status) == status = 404

ItemReadOK(status) == status = 200

ItemReadErr(c) ==
    IF c.pc = "failed" THEN "Could not send HTTP request"
    ELSE IF ItemReadNotFound(c.resp.status) THEN "none"
    ELSE IF ~ItemReadOK(c.resp.status) THEN "API returned status"
    ELSE IF ~Decode(c.resp.body).ok THEN "Could not parse API response"
    ELSE "none"

\* A mutant of ItemReadModel: an empty description is stored as null.
ItemReadModelNullEmpty(prior, api) ==
    ItemModel(StringValue(Itoa(api.ID)), StringValue(api.Name),
              IF api.Description = "" THEN StringNull ELSE StringValue(api.Description))

\* state.ID, state.Name, state.Description from the API response
ItemReadModel(prior, api) ==
    ItemModel(StringValue(Itoa(api.ID)), StringValue(api.Name), StringValue(api.Description))

\* resp.State of Read starts as the prior state; RemoveResource empties it.
ItemReadState(prior, c) ==
    IF c.pc = "failed" THEN prior
    ELSE IF ItemReadNotFound(c.resp.status) THEN Absent
    ELSE IF ItemReadErr(c) # "none" THEN prior
    ELSE ItemReadModel(prior, Decode(c.resp.body))

\* A mutant of ItemRead: the request is built with the method of Delete.
ItemReadAsDelete(r) ==
    /\ r \in ItemRes /\ Ready(r) /\ state[r].exists
    /\ LET url == Url("/api/items", ValueString(state[r].ID))
       IN  IF ~NewRequestOK(url)
           THEN ReturnEarly(r, Diag("ItemRead", "Could not create HTTP request", 0, <<>>, <<>>))
           ELSE Send(r, Sent(r, "ItemRead", state[r], Request("DELETE", url, NoBody)))
    /\ UNCHANGED <<provider, declared, remoteItems, nextId, remoteDisplay>>

ItemRead(r) ==
    /\ r \in ItemRes /\ Ready(r) /\ state[r].exists
    /\ LET url == Url("/api/items", ValueString(state[r].ID))
       IN  IF ~NewRequestOK(url)
           THEN ReturnEarly(r, Diag("ItemRead", "Could not create HTTP request", 0, <<>>, <<>>))
           ELSE Send(r, Sent(r, "ItemRead", state[r], Request("GET", url, NoBody)))
    /\ UNCHANGED <<provider, declared, remoteItems, nextId, remoteDisplay>>

ItemReadDone(r) ==
    /\ r \in ItemRes /\ Returned(call[r]) /\ call[r].op = "ItemRead"
    /\ Return(r, Diag("ItemRead", ItemReadErr(call[r]), StatusOf(call[r]), call[r].sent, <<>>),
              ItemReadState(state[r], call[r]))
    /\ UNCHANGED <<provider, declared, remoteItems, nextId, remoteDisplay>>

\* ---- Update

\* A mutant of ItemUpdateOK: the statuses Create accepts.
ItemUpdateOKAsCreate(status) == status = 201 \/ status = 200

ItemUpdateOK(status) == status = 200

ItemUpdateErr(c) ==
    IF c.pc = "failed" THEN "Could not send HTTP request"
    ELSE IF ~ItemUpdateOK(c.resp.status) THEN "API returned status"
    ELSE IF ~Decode(c.resp.body).ok THEN "Could not parse API response"
    ELSE "none"

\* A mutant of ItemUpdateModel: the id is taken from the request body's struct,
\* whose ID is never set.
ItemUpdateModelRequestId(plan, api) ==
    ItemModel(StringValue(Itoa(0)), StringValue(api.Name), StringValue(api.Description))

\* plan.ID, plan.Name, plan.Description from the API response
ItemUpdateModel(plan, api) ==
    ItemModel(StringValue(Itoa(api.ID)), StringValue(api.Name), StringValue(api.Description))

\* A mutant of ItemUpdateState: the error of Decode is ignored and the state is
\* set from whatever was decoded.
ItemUpdateStateEager(prior, c) ==
    IF c.pc = "failed" THEN prior
    ELSE IF ~ItemUpdateOK(c.resp.status) THEN prior
    ELSE ItemUpdateModel(c.model, Decode(c.resp.body))

\* resp.State of Update starts as the prior state and is set on the success path only.
ItemUpdateState(prior, c) ==
    IF ItemUpdateErr(c) = "none" THEN ItemUpdateModel(c.model, Decode(c.resp.body))
    ELSE prior

\* The planned id is the id of the prior state (UseStateForUnknown).
ItemUpdate(r, plan) ==
    /\ r \in ItemRes /\ Ready(r) /\ state[r].exists
    /\ LET model == ItemModel(state[r].ID, plan.Name, plan.Description)
           url == Url("/api/items", ValueString(model.ID))
       IN  IF ~NewRequestOK(url)
           THEN ReturnEarly(r, Diag("ItemUpdate", "Could not create HTTP request", 0, <<>>, <<>>))
           ELSE Send(r, Sent(r, "ItemUpdate", model, Request("PUT", url, ItemRequestBody(plan))))
    /\ UNCHANGED <<provider, declared, remoteItems, nextId, remoteDisplay>>

ItemUpdateDone(r) ==
    /\ r \in ItemRes /\ Returned(call[r]) /\ call[r].op = "ItemUpdate"
    /\ Return(r, Diag("ItemUpdate", ItemUpdateErr(call[r]), StatusOf(call[r]), call[r].sent, <<>>),
              ItemUpdateState(state[r], call[r]))
    /\ UNCHANGED <<provider, declared, remoteItems, nextId, remoteDisplay>>

\* ---- Delete

\* A mutant of ItemDeleteOK: 404 is not accepted.
ItemDeleteOKStrict(status) == status = 200 \/ status = 204

ItemDeleteOK(status) == status = 200 \/ status = 204 \/ status = 404

ItemDeleteErr(c) ==
    IF c.pc = "failed" THEN "Could not send HTTP request"
    ELSE IF ~ItemDeleteOK(c.resp.status) THEN "API returned status"
    ELSE "none"

\* "Terraform automatically removes from state after Delete returns successfully":
\* the record is removed exactly when Delete reports no error.
ItemDeleteState(prior, c) == IF ItemDeleteErr(c) = "none" THEN Absent ELSE prior

ItemDelete(r) ==
    /\ r \in ItemRes /\ Ready(r) /\ state[r].exists
    /\ LET url == Url("/api/items", ValueString(state[r].ID))
       IN  IF ~NewRequestOK(url)
           THEN ReturnEarly(r, Diag("ItemDelete", "Could not create HTTP request", 0, <<>>, <<>>))
           ELSE Send(r, Sent(r, "ItemDelete", state[r], Request("DELETE", url, NoBody)))
    /\ UNCHANGED <<provider, declared, remoteItems, nextId, remoteDisplay>>

ItemDeleteDone(r) ==
    /\ r \in ItemRes /\ Returned(call[r]) /\ call[r].op = "ItemDelete"
    /\ Return(r, Diag("ItemDelete", ItemDeleteErr(call[r]), StatusOf(call[r]), call[r].sent, <<>>),
              ItemDeleteState(state[r], call[r]))
    /\ UNCHANGED <<provider, declared, remoteItems, nextId, remoteDisplay>>

\* --------------------------------------------------------- display adapter

DisplayModel(id, data) == [exists |-> TRUE, ID |-> id, Data |-> data]

\* The payloads of display r: every payload when r is declared alone, the data
\* of its block when it is declared beside another display.
PayloadsFor(r) ==
    IF declared = {r} THEN Payloads
    ELSE IF r = "display1" THEN {PayloadA} ELSE {PayloadSpaced}

\* A mutant of DisplayValidate: the check is left out.
DisplayValidateSkipped(plan) == TRUE

\* json.Valid([]byte(plan.Data.ValueString()))
DisplayValidate(plan) == JsonValid(ValueString(plan.Data))

\* The text without its white space, as a re-serialization would leave it.
Compact(text) == SelectSeq(text, LAMBDA ch : ~IsWs(ch))

\* A mutant of DisplayWriteBody: the payload is re-serialized before it is sent.
DisplayWriteBodyCompact(plan) == RawBody(Compact(ValueString(plan.Data)))

\* bytes.NewBufferString(plan.Data.ValueString()): the planned text as it is.
DisplayWriteBody(plan) == RawBody(ValueString(plan.Data))

\* ---- Create

DisplayCreateOK(status) == status = 200 \/ status = 201

DisplayCreateErr(c) ==
    IF c.pc = "failed" THEN "Could not send HTTP request"
    ELSE IF ~DisplayCreateOK(c.resp.status) THEN "API returned status"
    ELSE "none"

\* plan.ID = "display"; resp.State is set on the success path only.
DisplayCreateState(prior, c) ==
    IF DisplayCreateErr(c) = "none" THEN DisplayModel(StringValue("display"), c.model.Data)
    ELSE prior

DisplayCreate(r, data) ==
    /\ r \in DisplayRes /\ Ready(r) /\ ~state[r].exists
    /\ LET plan == DisplayModel(StringUnknown, StringValue(data))
           url == Url("/api/display", <<>>)
       IN  IF ~DisplayValidate(plan)
           THEN ReturnEarly(r, Diag("DisplayCreate", "Invalid JSON", 0, <<>>, data))
           ELSE IF ~NewRequestOK(url)
           THEN ReturnEarly(r, Diag("DisplayCreate", "Could not create HTTP request", 0, <<>>, data))
           ELSE Send(r, Sent(r, "DisplayCreate", plan, Request("POST", url, DisplayWriteBody(plan))))
    /\ UNCHANGED <<provider, declared, remoteItems, nextId, remoteDisplay>>

DisplayCreateDone(r) ==
    /\ r \in DisplayRes /\ Returned(call[r]) /\ call[r].op = "DisplayCreate"
    /\ Return(r, Diag("DisplayCreate", DisplayCreateErr(call[r]), StatusOf(call[r]),
                      call[r].sent, ValueString(call[r].model.Data)),
              DisplayCreateState(state[r], call[r]))
    /\ UNCHANGED <<provider, declared, remoteItems, nextId, remoteDisplay>>

\* ---- Read

DisplayReadOK(status) == status = 200

\* io.ReadAll(httpResp.Body)
ReadAll(body) == body.kind = "raw"

DisplayReadErr(c) ==
    IF c.pc = "failed" THEN "Could not send HTTP request"
    ELSE IF ~DisplayReadOK(c.resp.status) THEN "API returned status"
    ELSE IF ~ReadAll(c.resp.body) THEN "Could not read response body"
    ELSE "none"

\* A mutant of DisplayReadModel: the body is re-serialized before it is stored.
DisplayReadModelCompact(prior, body) ==
    DisplayModel(StringValue("display"), StringValue(Compact(body.text)))

\* state.Data = string(body); state.ID = "display"
DisplayReadModel(prior, body) == DisplayModel(StringValue("display"), StringValue(body.text))

\* A mutant of DisplayReadState: 404 removes the record, as item Read does.
DisplayReadStateNotFound(prior, c) ==
    IF c.pc = "answered" /\ c.resp.status = 404 THEN Absent
    ELSE IF DisplayReadErr(c) = "none" THEN DisplayReadModel(prior, c.resp.body)
    ELSE prior

\* resp.State of Read starts as the prior state and is set on the success path only.
DisplayReadState(prior, c) ==
    IF DisplayReadErr(c) = "none" THEN DisplayReadModel(prior, c.resp.body) ELSE prior

DisplayRead(r) ==
    /\ r \in DisplayRes /\ Ready(r) /\ state[r].exists
    /\ LET url == Url("/api/display", <<>>)
       IN  IF ~NewRequestOK(url)
           THEN ReturnEarly(r, Diag("DisplayRead", "Could not create HTTP request", 0, <<>>, <<>>))
           ELSE Send(r, Sent(r, "DisplayRead", state[r], Request("GET", url, NoBody)))
    /\ UNCHANGED <<provider, declared, remoteItems, nextId, remoteDisplay>>

DisplayReadDone(r) ==
    /\ r \in DisplayRes /\ Returned(call[r]) /\ call[r].op = "DisplayRead"
    /\ Return(r, Diag("DisplayRead", DisplayReadErr(call[r]), StatusOf(call[r]), call[r].sent, <<>>),
              DisplayReadState(state[r], call[r]))
    /\ UNCHANGED <<provider, declared, remoteItems, nextId, remoteDisplay>>

\* ---- Update

DisplayUpdateOK(status) == status = 200 \/ status = 201

DisplayUpdateErr(c) ==
    IF c.pc = "failed" THEN "Could not send HTTP request"
    ELSE IF ~DisplayUpdateOK(c.resp.status) THEN "API returned status"
    ELSE "none"

\* plan.ID = "display"; resp.State of Update starts as the prior state and is set
\* on the success path only.
DisplayUpdateState(prior, c) ==
    IF DisplayUpdateErr(c) = "none" THEN DisplayModel(StringValue("display"), c.model.Data)
    ELSE prior

DisplayUpdate(r, data) ==
    /\ r \in DisplayRes /\ Ready(r) /\ state[r].exists
    /\ LET plan == DisplayModel(StringUnknown, StringValue(data))
           url == Url("/api/display", <<>>)
       IN  IF ~DisplayValidate(plan)
           THEN ReturnEarly(r, Diag("DisplayUpdate", "Invalid JSON", 0, <<>>, data))
           ELSE IF ~NewRequestOK(url)
           THEN ReturnEarly(r, Diag("DisplayUpdate", "Could not create HTTP request", 0, <<>>, data))
           ELSE Send(r, Sent(r, "DisplayUpdate", plan, Request("POST", url, DisplayWriteBody(plan))))
    /\ UNCHANGED <<provider, declared, remoteItems, nextId, remoteDisplay>>

DisplayUpdateDone(r) ==
    /\ r \in DisplayRes /\ Returned(call[r]) /\ call[r].op = "DisplayUpdate"
    /\ Return(r, Diag("DisplayUpdate", DisplayUpdateErr(call[r]), StatusOf(call[r]),
                      call[r].sent, ValueString(call[r].model.Data)),
              DisplayUpdateState(state[r], call[r]))
    /\ UNCHANGED <<provider, declared, remoteItems, nextId, remoteDisplay>>

\* ---- Delete

\* A mutant of DisplayDeleteBody: the POST has an empty body.
DisplayDeleteBodyEmpty == RawBody(<<>>)

\* bytes.NewBufferString("{}")
DisplayDeleteBody == RawBody(<<"{", "}">>)

\* A mutant of DisplayDeleteErr: the status is checked as Create and Update check it.
DisplayDeleteErrChecked(c) ==
    IF c.pc = "failed" THEN "Could not send HTTP request"
    ELSE IF c.resp.status # 200 /\ c.resp.status # 201 THEN "API returned status"
    ELSE "none"

\* The response is not looked at: an error of Do is the only error after the send.
DisplayDeleteErr(c) ==
    IF c.pc = "failed" THEN "Could not send HTTP request" ELSE "none"

\* "Just let Terraform remove it from state": the record is removed exactly
\* when Delete reports no error.
DisplayDeleteState(prior, c) == IF DisplayDeleteErr(c) = "none" THEN Absent ELSE prior

DisplayDelete(r) ==
    /\ r \in DisplayRes /\ Ready(r) /\ state[r].exists
    /\ LET url == Url("/api/display", <<>>)
       IN  IF ~NewRequestOK(url)
           THEN ReturnEarly(r, Diag("DisplayDelete", "Could not create HTTP request", 0, <<>>, <<>>))
           ELSE Send(r, Sent(r, "DisplayDelete", state[r], Request("POST", url, DisplayDeleteBody)))
    /\ UNCHANGED <<provider, declared, remoteItems, nextId, remoteDisplay>>

DisplayDeleteDone(r) ==
    /\ r \in DisplayRes /\ Returned(call[r]) /\ call[r].op = "DisplayDelete"
    /\ Return(r, Diag("DisplayDelete", DisplayDeleteErr(call[r]), StatusOf(call[r]), call[r].sent, <<>>),
              DisplayDeleteState(state[r], call[r]))
    /\ UNCHANGED <<provider, declared, remoteItems, nextId, remoteDisplay>>

\* ------------------------------------------------------------------ import

\* The ids an import of instance r names: the decimal ids of items, the fixed id
\* of the display.
DisplayImportId == <<"d", "i", "s", "p", "l", "a", "y">>

ImportIds(r) == IF r \in ItemRes THEN {Itoa(i) : i \in Ids} ELSE {DisplayImportId}

\* ItemResource and DisplayResource are declared as resource.Resource only and
\* have no ImportState method: the framework answers an import of either with
\* an error, calls no handler and persists nothing.
ImportState(r, id) ==
    /\ Ready(r) /\ ~state[r].exists
    /\ ReturnEarly(r, Diag("ImportState", "Resource Import Not Implemented", 0, <<>>, id))
    /\ UNCHANGED <<provider, declared, remoteItems, nextId, remoteDisplay>>

\* ------------------------------------------------------- the remote service

DigitValue(c) == CHOOSE d \in 0..9 : Digits[d + 1] = c

\* The number a path segment of decimal digits denotes; -1 for anything else.
RECURSIVE Atoi(_)
Atoi(s) ==
    IF Len(s) = 0 \/ ~IsDigit(s[Len(s)]) THEN -1
    ELSE IF Len(s) = 1 THEN DigitValue(s[1])
    ELSE LET high == Atoi(SubSeq(s, 1, Len(s) - 1))
         IN  IF high < 0 THEN -1 ELSE 10 * high + DigitValue(s[Len(s)])

Respond(r, status, body) ==
    call' = [call EXCEPT ![r].pc = "answered", ![r].resp = [status |-> status, body |-> body]]

RemoteItem(name, description) == [exists |-> TRUE, name |-> name, description |-> description]

Known(id) == id \in Ids /\ remoteItems[id].exists

\* The answer to GET /api/items/{id}.
ItemGetResponse(id) ==
    IF Known(id)
    THEN [status |-> 200,
          body |-> ItemJson(id, remoteItems[id].name, remoteItems[id].description)]
    ELSE [status |-> 404, body |-> ErrorJson]

\* /api/items and /api/items/{id}: POST assigns the next id and echoes the new
\* item, GET returns the item, PUT replaces its fields and echoes it, DELETE
\* removes it; an id that is not there is answered 404.  Which of the success
\* codes the adapters know the service answers with is left open.  Any request
\* may be answered 500 (the service's database error under concurrent writes).
ServeItems(r) ==
    /\ r \in ItemRes /\ r \in declared /\ call[r].pc = "sent"
    /\ LET q == call[r].req
           id == Atoi(q.url.id)
       IN  \/ /\ Respond(r, 500, ErrorJson)
              /\ UNCHANGED <<remoteItems, nextId>>
           \/ /\ q.method = "POST" /\ nextId \in Ids
              /\ remoteItems' = [remoteItems EXCEPT
                                   ![nextId] = RemoteItem(q.body.name, q.body.description)]
              /\ nextId' = nextId + 1
              /\ \E status \in {200, 201} :
                   Respond(r, status, ItemJson(nextId, q.body.name, q.body.description))
           \/ /\ q.method = "GET"
              /\ Respond(r, ItemGetResponse(id).status, ItemGetResponse(id).body)
              /\ UNCHANGED <<remoteItems, nextId>>
           \/ /\ q.method = "PUT" /\ Known(id)
              /\ remoteItems' = [remoteItems EXCEPT
                                   ![id] = RemoteItem(q.body.name, q.body.description)]
              /\ \E status \in {200, 201} :
                   Respond(r, status, ItemJson(id, q.body.name, q.body.description))
              /\ UNCHANGED nextId
           \/ /\ q.method = "DELETE" /\ Known(id)
              /\ remoteItems' = [remoteItems EXCEPT ![id] = NoItem]
              /\ \E status \in {200, 204} : Respond(r, status, NoBody)
              /\ UNCHANGED nextId
           \/ /\ q.method \in {"PUT", "DELETE"} /\ ~Known(id)
              /\ Respond(r, 404, ErrorJson)
              /\ UNCHANGED <<remoteItems, nextId>>
    /\ UNCHANGED <<provider, declared, state, diag, remoteDisplay>>

\* /api/display: POST replaces the display value with the posted JSON text (a
\* body that is not JSON is answered 400), GET returns the value as it was
\* posted.  Any request may be answered 500, or 404 by a service that does not
\* have the endpoint.
ServeDisplay(r) ==
    /\ r \in DisplayRes /\ r \in declared /\ call[r].pc = "sent"
    /\ LET q == call[r].req
       IN  \/ /\ \E status \in {404, 500} : Respond(r, status, ErrorJson)
              /\ UNCHANGED remoteDisplay
           \/ /\ q.method = "POST"
              /\ IF JsonValid(q.body.text)
                 THEN /\ remoteDisplay' = q.body.text
                      /\ \E status \in {200, 201} : Respond(r, status, NoBody)
                 ELSE /\ Respond(r, 400, ErrorJson)
                      /\ UNCHANGED remoteDisplay
           \/ /\ q.method = "GET"
              /\ Respond(r, 200, RawBody(remoteDisplay))
              /\ UNCHANGED remoteDisplay
    /\ UNCHANGED <<provider, declared, state, diag, remoteItems, nextId>>

\* ------------------------------------------------------------ the transport

\* Do returns an error and the request never reached the service.
ConnectionRefused(r) ==
    /\ r \in declared /\ call[r].pc = "sent"
    /\ call' = [call EXCEPT ![r].pc = "failed"]
    /\ UNCHANGED <<provider, declared, state, diag, remoteItems, nextId, remoteDisplay>>

\* Do returns an error (timeout, cancellation) after the service handled the request.
ResponseLost(r) ==
    /\ r \in declared /\ call[r].pc = "answered"
    /\ call' = [call EXCEPT ![r].pc = "failed", ![r].resp = NoResponse]
    /\ UNCHANGED <<provider, declared, state, diag, remoteItems, nextId, remoteDisplay>>

\* Do returns the response, and the connection breaks while its body is read.
BodyTruncated(r) ==
    /\ r \in declared /\ call[r].pc = "answered"
    /\ call[r].resp.body.kind \in {"item", "raw"}
    /\ call' = [call EXCEPT ![r].resp.body = Truncated]
    /\ UNCHANGED <<provider, declared, state, diag, remoteItems, nextId, remoteDisplay>>

\* ------------------------------------------------------------ specification

Next ==
    \/ Configure
    \/ \E r \in ItemRes : \E plan \in PlansFor(r) : ItemCreate(r, plan)
    \/ \E r \in ItemRes : ItemCreateDone(r)
    \/ \E r \in ItemRes : ItemRead(r)
    \/ \E r \in ItemRes : ItemReadDone(r)
    \/ \E r \in ItemRes : \E plan \in PlansFor(r) : ItemUpdate(r, plan)
    \/ \E r \in ItemRes : ItemUpdateDone(r)
    \/ \E r \in ItemRes : ItemDelete(r)
    \/ \E r \in ItemRes : ItemDeleteDone(r)
    \/ \E r \in ItemRes : ServeItems(r)
    \/ \E r \in DisplayRes : \E data \in PayloadsFor(r) : DisplayCreate(r, data)
    \/ \E r \in DisplayRes : DisplayCreateDone(r)
    \/ \E r \in DisplayRes : DisplayRead(r)
    \/ \E r \in DisplayRes : DisplayReadDone(r)
    \/ \E r \in DisplayRes : \E data \in PayloadsFor(r) : DisplayUpdate(r, data)
    \/ \E r \in DisplayRes : DisplayUpdateDone(r)
    \/ \E r \in DisplayRes : DisplayDelete(r)
    \/ \E r \in DisplayRes : DisplayDeleteDone(r)
    \/ \E r \in DisplayRes : ServeDisplay(r)
    \/ \E r \in Res : \E id \in ImportIds(r) : ImportState(r, id)
    \/ \E r \in Res : ConnectionRefused(r)
    \/ \E r \in Res : ResponseLost(r)
    \/ \E r \in Res : BodyTruncated(r)

Spec == Init /\ [][Next]_vars

\* ------------------------------------------------------------------ claims

\* The handler of instance r returns in this step.
Returns(r) == call'[r].pc = "idle" /\ (call[r].pc # "idle" \/ diag'[r] # diag[r])

\* The handler op of instance r returns in this step from HTTPClient.Do.
ReturnsFromDo(r, op) == call[r].pc # "idle" /\ call[r].op = op /\ call'[r].pc = "idle"

C2_ReadNotFoundRemoves ==
    \A r \in ItemRes :
        (diag[r].op = "ItemRead" /\ diag[r].status = 404) =>
            (diag[r].err = "none" /\ ~state[r].exists /\ diag[r].sent = <<"GET">>)

C2_Witness ==
    \E r \in ItemRes : diag[r].op = "ItemRead" /\ diag[r].status = 404 /\ ~state[r].exists

\* C3: as long as an item's record stays in persisted state its id does not
\* change, whichever handler returns.
C3_IdNeverChanges ==
    [][\A r \in ItemRes :
          (state[r].exists /\ state'[r].exists) => state'[r].ID = state[r].ID]_vars

\* An Update returned without error and changed the name of a record with a
\* two-digit id.
C3_Witness ==
    \E r \in ItemRes :
        /\ diag[r].op = "ItemUpdate" /\ diag[r].err = "none"
        /\ state[r].exists /\ state[r].ID = StringValue(<<"1", "0">>)
        /\ state[r].Name = StringValue("Web Server v2")

MutatingOps == {"ItemCreate", "ItemUpdate", "ItemDelete", "DisplayCreate", "DisplayUpdate"}

\* C4: when item Create, Update, Delete or display Create, Update returns with
\* an error, the instance's persisted record is what it was before the call.
C4_NoPartialState ==
    [][\A r \in Res :
          (Returns(r) /\ diag'[r].op \in MutatingOps /\ diag'[r].err # "none")
              => state'[r] = state[r]]_vars

\* One item's Update was answered 200 with a body that could not be decoded,
\* the other's Delete failed in Do: both records are still in persisted state.
C4_Witness ==
    \E r, q \in ItemRes :
        /\ diag[r].op = "ItemUpdate" /\ diag[r].err = "Could not parse API response"
        /\ diag[r].status = 200 /\ state[r].exists
        /\ diag[q].op = "ItemDelete" /\ diag[q].err = "Could not send HTTP request"
        /\ state[q].exists

\* C5: an item Read that is invoked right after a Create returned without
\* error, and that itself returns without error, leaves the persisted record
\* (id, name, description) exactly as Create stored it.
C5_CreateThenRead ==
    [][\A r \in ItemRes :
          (ReturnsFromDo(r, "ItemRead") /\ call[r].follows = "ItemCreate"
             /\ diag'[r].err = "none")
              => state'[r] = state[r]]_vars

\* A Read invoked right after the Create of an item planned without description
\* has been answered 200.
C5_Witness ==
    \E r \in ItemRes :
        /\ call[r].pc = "answered" /\ call[r].op = "ItemRead"
        /\ call[r].follows = "ItemCreate" /\ call[r].resp.status = 200
        /\ call[r].resp.body.kind = "item"
        /\ state[r].exists /\ state[r].Description = StringValue("")

\* C6: an item Delete answered 200, 204 or 404 reports no error and the record
\* is removed; 404 is what the service answers once the item is gone.
C6_DeleteIdempotent ==
    \A r \in ItemRes :
        (diag[r].op = "ItemDelete" /\ diag[r].status \in {200, 204, 404}) =>
            (diag[r].err = "none" /\ ~state[r].exists)

\* A Delete of an item that was already gone was answered 404.
C6_Witness ==
    \E r \in ItemRes :
        /\ diag[r].op = "ItemDelete" /\ diag[r].status = 404
        /\ diag[r].err = "none" /\ ~state[r].exists

\* C7: a display Create or Update whose data is not valid JSON returns "Invalid
\* JSON" without having sent anything: nothing is in flight, the remote display
\* value and the persisted state are unchanged.
C7_InvalidJsonNoRequest ==
    [][\A r \in DisplayRes :
          (diag'[r] # diag[r] /\ diag'[r].op \in {"DisplayCreate", "DisplayUpdate"}
             /\ ~JsonValid(diag'[r].input))
              => /\ diag'[r].err = "Invalid JSON" /\ diag'[r].sent = <<>>
                 /\ call[r].pc = "idle" /\ call'[r].pc = "idle"
                 /\ remoteDisplay' = remoteDisplay /\ state' = state]_vars

\* An Update with "{not" was refused and the record still holds its valid data.
C7_Witness ==
    \E r \in DisplayRes :
        /\ diag[r].op = "DisplayUpdate" /\ diag[r].err = "Invalid JSON"
        /\ diag[r].input = PayloadInvalid /\ diag[r].sent = <<>>
        /\ state[r].exists /\ state[r].Data = StringValue(PayloadSpaced)

\* C8: with one declared display, a Create or Update sends the planned text as
\* it is, and a Read invoked right after a Create or Update returned without
\* error, and that itself returns without error, persists exactly that text.
C8_WriteReadRoundTrip ==
    [][\A r \in DisplayRes :
          /\ (call[r].pc = "idle" /\ call'[r].pc = "sent"
                /\ call'[r].op \in {"DisplayCreate", "DisplayUpdate"})
               => call'[r].req.body = RawBody(call'[r].model.Data.value)
          /\ (declared = {r} /\ ReturnsFromDo(r, "DisplayRead")
                /\ call[r].follows \in {"DisplayCreate", "DisplayUpdate"}
                /\ diag'[r].err = "none")
               => (state'[r].Data = state[r].Data /\ state'[r].ID = StringValue("display"))]_vars

\* A Read invoked right after a write of { "a": 1 } has been answered 200.
C8_Witness ==
    \E r \in DisplayRes :
        /\ declared = {r}
        /\ call[r].pc = "answered" /\ call[r].op = "DisplayRead"
        /\ call[r].follows \in {"DisplayCreate", "DisplayUpdate"}
        /\ call[r].resp.status = 200 /\ call[r].resp.body = RawBody(PayloadSpaced)
        /\ state[r].Data = StringValue(PayloadSpaced)

DisplayOps == {"DisplayCreate", "DisplayRead", "DisplayUpdate", "DisplayDelete"}

\* The payload a display handler's POST carries for the caller: the planned
\* data, and {} for Delete.
WrittenPayload(c) ==
    IF c.op = "DisplayDelete" THEN PayloadEmpty ELSE ValueString(c.model.Data)

\* C9: the remote display value changes only when the service accepts a POST of
\* some display instance, and then becomes that handler's payload ({} for
\* Delete); every persisted display id is "display"; an instance's persisted
\* record changes only when one of its own handlers returns.
C9_LastWriterWins ==
    [][/\ \/ remoteDisplay' = remoteDisplay
          \/ \E r \in DisplayRes :
                /\ call[r].pc = "sent" /\ call'[r].pc = "answered"
                /\ call[r].req.method = "POST" /\ call'[r].resp.status \in {200, 201}
                /\ remoteDisplay' = WrittenPayload(call[r])
       /\ \A r \in DisplayRes :
             /\ (call[r].pc = "sent" /\ call'[r].pc = "answered"
                   /\ call[r].req.method = "POST" /\ call'[r].resp.status \in {200, 201})
                  => remoteDisplay' = WrittenPayload(call[r])
             /\ state'[r].exists => state'[r].ID = StringValue("display")
             /\ state'[r] # state[r] => (call[r].pc # "idle" /\ call[r].op \in DisplayOps
                                           /\ call'[r].pc = "idle")]_vars

\* Two displays are in persisted state; the second one's write was accepted
\* last, and the first still holds the data it wrote.
C9_Witness ==
    /\ state["display1"].exists /\ state["display2"].exists
    /\ diag["display2"].op = "DisplayCreate" /\ diag["display2"].err = "none"
    /\ remoteDisplay = PayloadSpaced
    /\ state["display1"].Data = StringValue(PayloadA)
    /\ state["display2"].Data = StringValue(PayloadSpaced)

\* C10: a Create that returns without error persists the id, name and
\* description of the response to its own request, which the service made of
\* its own plan, and an id no other instance holds; once Configure has run,
\* no step changes the provider's client.
C10_NoCrossContamination ==
    [][/\ \A r \in ItemRes :
             (ReturnsFromDo(r, "ItemCreate") /\ diag'[r].err = "none") =>
                 /\ state'[r].ID = StringValue(Itoa(call[r].resp.body.id))
                 /\ state'[r].Name = StringValue(call[r].resp.body.name)
                 /\ state'[r].Description = StringValue(call[r].resp.body.description)
                 /\ state'[r].Name = call[r].model.Name
                 /\ state'[r].Description = StringValue(ValueString(call[r].model.Description))
                 /\ \A q \in ItemRes \ {r} :
                       state'[q].exists => state'[q].ID # state'[r].ID
       /\ provider.configured => provider' = provider]_vars

\* The Creates of two items are in flight together, both answered.
C10_Witness ==
    \A r \in ItemRes :
        /\ call[r].pc = "answered" /\ call[r].op = "ItemCreate"
        /\ ItemCreateOK(call[r].resp.status) /\ call[r].resp.body.kind = "item"

\* C11: the client Configure hands out holds exactly the configured endpoint when
\* that is not null and the value of DEMOAPP_ENDPOINT otherwise; resources and
\* data sources are handed the same client, every request of every instance is
\* addressed to that endpoint, and once Configure has run the provider's client
\* and configuration never change again.
C11_EndpointResolution ==
    [][/\ ~provider'.ResourceData.nil =>
             /\ ~IsNull(provider'.config) =>
                    provider'.ResourceData.Endpoint = provider'.config.value
             /\ IsNull(provider'.config) =>
                    provider'.ResourceData.Endpoint = provider'.env
             /\ provider'.DataSourceData = provider'.ResourceData
       /\ \A r \in Res :
             call'[r].pc # "idle" =>
                 /\ ~provider'.ResourceData.nil
                 /\ call'[r].req.url.base = provider'.ResourceData.Endpoint
       /\ provider.configured => provider' = provider]_vars

\* The configured endpoint and the environment variable are both set and differ,
\* and a request is in flight to the configured one.
C11_Witness ==
    /\ provider.config = StringValue("http://localhost:8080")
    /\ provider.env = "http://demoapp:8080"
    /\ provider.ResourceData.Endpoint = "http://localhost:8080"
    /\ \E r \in Res : call[r].pc = "sent" /\ call[r].req.url.base = "http://localhost:8080"

\* C12: when the configured endpoint is null or empty and DEMOAPP_ENDPOINT is
\* empty, no client is ever handed out (ResourceData and DataSourceData stay
\* nil), no handler ever runs or sends a request, and once Configure has run it
\* has reported the missing-endpoint error.
C12_MissingEndpointFails ==
    (ValueString(provider.config) = "" /\ provider.env = "") =>
        /\ provider.ResourceData.nil /\ provider.DataSourceData.nil
        /\ \A r \in Res : call[r].pc = "idle" /\ diag[r] = NoDiag
        /\ provider.configured => provider.err = "Missing Demo App Endpoint"

\* Configure has run with a null endpoint and an empty environment variable.
C12_Witness ==
    /\ IsNull(provider.config) /\ provider.env = ""
    /\ provider.configured /\ provider.err = "Missing Demo App Endpoint"
    /\ provider.ResourceData.nil

\* C13, as stated: an import of an item by the id of an item that exists on the
\* service, or of the display by the id "display", reports no error and puts a
\* record of that id into persisted state (which the Read that follows fills in).
C13_ImportById ==
    \A r \in Res :
        (/\ diag[r].op = "ImportState"
         /\ r \in ItemRes => Known(Atoi(diag[r].input))
         /\ r \in DisplayRes => diag[r].input = DisplayImportId) =>
            /\ diag[r].err = "none"
            /\ state[r].exists
            /\ r \in ItemRes => state[r].ID = StringValue(diag[r].input)
            /\ r \in DisplayRes => state[r].ID = StringValue("display")

\* An item that exists on the service and is in nobody's persisted state was
\* named in an import, which was refused.
C13_Witness ==
    \E r \in ItemRes :
        /\ diag[r].op = "ImportState" /\ Known(Atoi(diag[r].input))
        /\ \A q \in ItemRes : ~state[q].exists
        /\ diag[r].err = "Resource Import Not Implemented"

\* The record item Create persists for the response body of a successful POST.
CreatedItem(body) ==
    ItemModel(StringValue(Itoa(body.id)), StringValue(body.name), StringValue(body.description))

\* The outcomes of item Create that C14 states alike as written and as amended:
\* a failure of Do is a transport error; a status other than 200 and 201 is an
\* API error that carries the status code and the body; either leaves persisted
\* state as it was; and a Create that succeeds persists the record made of the
\* response's id (in decimal), name and description.
ItemCreateOutcomes(r) ==
    LET c == call[r]
    IN  /\ c.pc = "failed" =>
              diag'[r].err = "Could not send HTTP request" /\ state'[r] = state[r]
        /\ (c.pc = "answered" /\ c.resp.status \notin {200, 201}) =>
              /\ diag'[r].err = "API returned status"
              /\ diag'[r].status = c.resp.status /\ diag'[r].body = c.resp.body
              /\ state'[r] = state[r]
        /\ diag'[r].err = "none" =>
              c.resp.body.kind = "item" /\ state'[r] = CreatedItem(c.resp.body)

\* An item Create returns in this step without having sent a request.
ItemCreateReturnsEarly(r) ==
    call[r].pc = "idle" /\ call'[r].pc = "idle" /\ diag'[r] # diag[r]
    /\ diag'[r].op = "ItemCreate"

\* C14, as stated: item Create succeeds exactly when the response status is 200
\* or 201 (then persisting the response's id, name and description), any other
\* status is an API error with status and body, and a request-construction or
\* transport failure is a transport error.
C14_CreateSucceedsOn200Or201 ==
    [][\A r \in ItemRes :
         /\ ReturnsFromDo(r, "ItemCreate") =>
               /\ ItemCreateOutcomes(r)
               /\ diag'[r].err = "none" <=>
                     (call[r].pc = "answered" /\ call[r].resp.status \in {200, 201})
         /\ ItemCreateReturnsEarly(r) =>
               diag'[r].err = "Could not create HTTP request" /\ state'[r] = state[r]]_vars

\* C14, amended: item Create succeeds exactly when the response status is 200 or
\* 201 and the body decodes as an item object; it then persists the response's
\* id (in decimal), name and description in place of what the caller planned.
\* A 200 or 201 whose body cannot be decoded is a parse error, any other status
\* an API error with status and body, a failure of Do or of request
\* construction a transport error; after every error persisted state is as it was.
C14_CreateSucceedsOnDecodedItem ==
    [][\A r \in ItemRes :
         /\ ReturnsFromDo(r, "ItemCreate") =>
               /\ ItemCreateOutcomes(r)
               /\ diag'[r].err = "none" <=>
                     /\ call[r].pc = "answered" /\ call[r].resp.status \in {200, 201}
                     /\ call[r].resp.body.kind = "item"
               /\ (/\ call[r].pc = "answered" /\ call[r].resp.status \in {200, 201}
                   /\ call[r].resp.body.kind # "item") =>
                     /\ diag'[r].err = "Could not parse API response"
                     /\ state'[r] = state[r]
         /\ ItemCreateReturnsEarly(r) =>
               diag'[r].err = "Could not create HTTP request" /\ state'[r] = state[r]]_vars

\* A Create planned with a null description was answered 201 and persisted the
\* empty description of the response, while another item's Create was answered
\* 200 with a body that broke off and reported a parse error.
C14_Witness ==
    \E r, q \in ItemRes :
        /\ diag[r].op = "ItemCreate" /\ diag[r].err = "none" /\ diag[r].status = 201
        /\ state[r].exists /\ state[r].Description = StringValue("")
        /\ diag[q].op = "ItemCreate" /\ diag[q].err = "Could not parse API response"
        /\ diag[q].status = 200 /\ ~state[q].exists

\* The record item Update persists for the response body of a successful PUT.
UpdatedItem(body) ==
    ItemModel(StringValue(Itoa(body.id)), StringValue(body.name), StringValue(body.description))

\* C15, as stated: item Update treats a response status as success if and only
\* if item Create treats it as success, and on success the record made of the
\* response's fields replaces the persisted one.
C15_UpdateSameAsCreate ==
    [][\A r \in ItemRes :
         (ReturnsFromDo(r, "ItemUpdate") /\ call[r].pc = "answered") =>
             /\ diag'[r].err # "API returned status" <=> ItemCreateOK(call[r].resp.status)
             /\ diag'[r].err = "none" => state'[r] = UpdatedItem(call[r].resp.body)]_vars

\* C15, amended: item Update handles errors as item Create does, but accepts
\* status 200 only: every other status, the 201 that Create accepts included,
\* is an API error with status and body that leaves the persisted record as it
\* was.  A 200 whose body decodes as an item replaces the persisted record by
\* the response's id (in decimal), name and description; a 200 whose body cannot
\* be decoded is a parse error, and a failure of Do a transport error.
C15_UpdateSucceedsOn200Only ==
    [][\A r \in ItemRes :
         ReturnsFromDo(r, "ItemUpdate") =>
             LET c == call[r]
             IN  /\ c.pc = "failed" =>
                       diag'[r].err = "Could not send HTTP request" /\ state'[r] = state[r]
                 /\ (c.pc = "answered" /\ c.resp.status # 200) =>
                       /\ diag'[r].err = "API returned status"
                       /\ diag'[r].status = c.resp.status /\ diag'[r].body = c.resp.body
                       /\ state'[r] = state[r]
                 /\ (c.pc = "answered" /\ c.resp.status = 200 /\ c.resp.body.kind # "item") =>
                       diag'[r].err = "Could not parse API response" /\ state'[r] = state[r]
                 /\ (c.pc = "answered" /\ c.resp.status = 200 /\ c.resp.body.kind = "item") =>
                       diag'[r].err = "none" /\ state'[r] = UpdatedItem(c.resp.body)]_vars

\* An Update was answered 201: it reported an API error and the persisted
\* record keeps the old name while the service holds the new one.
C15_Witness ==
    \E r \in ItemRes :
        /\ diag[r].op = "ItemUpdate" /\ diag[r].status = 201
        /\ diag[r].err = "API returned status" /\ diag[r].body.kind = "item"
        /\ state[r].exists /\ state[r].Name # StringValue(diag[r].body.name)

\* C16: display Read reports success only on status 200; every other status,
\* 404 included, is an API error with status and body.  Read never removes the
\* record from persisted state, after an error the record is as it was, and
\* after a success its id is "display" and its data the text of the response.
C16_DisplayReadOnly200 ==
    [][\A r \in DisplayRes :
         ReturnsFromDo(r, "DisplayRead") =>
             LET c == call[r]
             IN  /\ state'[r].exists
                 /\ diag'[r].err = "none" =>
                       /\ c.pc = "answered" /\ c.resp.status = 200
                       /\ state'[r].ID = StringValue("display")
                       /\ state'[r].Data = StringValue(c.resp.body.text)
                 /\ (c.pc = "answered" /\ c.resp.status # 200) =>
                       /\ diag'[r].err = "API returned status"
                       /\ diag'[r].status = c.resp.status /\ diag'[r].body = c.resp.body
                 /\ diag'[r].err # "none" => state'[r] = state[r]]_vars

\* A display Read was answered 404: it reported an API error and the record is
\* still in persisted state.
C16_Witness ==
    \E r \in DisplayRes :
        /\ diag[r].op = "DisplayRead" /\ diag[r].status = 404
        /\ diag[r].err = "API returned status" /\ state[r].exists

\* C17: display Delete sends one POST with the body {} to /api/display; when it
\* returns after a response was received it reports no error whatever the
\* status, the record is removed from persisted state, and that POST is the
\* only request it issued; and when the service accepts the POST (200 or 201)
\* the remote display value is {}.
C17_DeleteBestEffort ==
    [][\A r \in DisplayRes :
         /\ (call[r].pc = "idle" /\ call'[r].pc # "idle" /\ call'[r].op = "DisplayDelete") =>
               /\ call'[r].req.method = "POST"
               /\ call'[r].req.url.path = "/api/display"
               /\ call'[r].req.body = RawBody(<<"{", "}">>)
         /\ (/\ call[r].pc = "sent" /\ call[r].op = "DisplayDelete"
             /\ call'[r].pc = "answered" /\ call'[r].resp.status \in {200, 201}) =>
               remoteDisplay' = <<"{", "}">>
         /\ (ReturnsFromDo(r, "DisplayDelete") /\ call[r].pc = "answered") =>
               /\ diag'[r].err = "none" /\ diag'[r].status = call[r].resp.status
               /\ diag'[r].sent = <<"POST">>
               /\ ~state'[r].exists]_vars

\* One display's Delete was answered 404 and its record is gone without an
\* error; the other's Delete has just been accepted: the remote value is {}
\* while the record still holds the data written before.
C17_Witness ==
    \E r, q \in DisplayRes :
        /\ diag[r].op = "DisplayDelete" /\ diag[r].status = 404
        /\ diag[r].err = "none" /\ ~state[r].exists
        /\ call[q].pc = "answered" /\ call[q].op = "DisplayDelete"
        /\ call[q].resp.status = 200 /\ remoteDisplay = PayloadEmpty
        /\ state[q].exists /\ state[q].Data = StringValue(PayloadSpaced)

\* C18: every handler issues at most one HTTP request: a handler blocked in Do
\* has issued exactly one, which stays the same request until the handler
\* returns; a handler that returns after Do has issued that one request and no
\* other, whatever the outcome; and a handler that returns before Do has
\* issued none.
C18_SingleShot ==
    [][\A r \in Res :
         /\ call'[r].pc # "idle" => Len(call'[r].sent) = 1
         /\ (call[r].pc # "idle" /\ call'[r].pc # "idle") =>
               /\ call'[r].op = call[r].op
               /\ call'[r].sent = call[r].sent
               /\ call'[r].req = call[r].req
         /\ (call[r].pc # "idle" /\ call'[r].pc = "idle") =>
               diag'[r].sent = <<call[r].req.method>>
         /\ (call[r].pc = "idle" /\ call'[r].pc = "idle" /\ diag'[r] # diag[r]) =>
               diag'[r].sent = <<>>]_vars

\* One item's handler returned with a transport error after its one request,
\* the other's with an API error after its one request.
C18_Witness ==
    \E r, q \in ItemRes :
        /\ diag[r].err = "Could not send HTTP request" /\ Len(diag[r].sent) = 1
        /\ diag[q].err = "API returned status" /\ Len(diag[q].sent) = 1

ReadOps == {"ItemRead", "DisplayRead"}

\* A step of a Read of instance r: the handler is invoked, its request is
\* answered or fails, or the handler returns.
ReadStep(r) ==
    \/ call[r].pc # "idle" /\ call[r].op \in ReadOps /\ call'[r] # call[r]
    \/ call'[r].pc # "idle" /\ call'[r].op \in ReadOps /\ call'[r] # call[r]
    \/ diag'[r] # diag[r] /\ diag'[r].op \in ReadOps

\* C19: the request of an item Read or a display Read is a GET without a body,
\* a Read that returns has issued nothing but that GET, and no step of a Read
\* (its invocation, the service answering its request, a transport failure,
\* its return) changes the remote items, the id the service assigns next or
\* the remote display value.
C19_ReadNeverMutatesRemote ==
    [][\A r \in Res :
         ReadStep(r) =>
             /\ call'[r].pc # "idle" =>
                   call'[r].req.method = "GET" /\ call'[r].req.body = NoBody
             /\ call'[r].pc = "idle" => diag'[r].sent \in {<<>>, <<"GET">>}
             /\ remoteItems' = remoteItems
             /\ nextId' = nextId
             /\ remoteDisplay' = remoteDisplay]_vars

\* An item Read was answered 200 and returned: the item is still on the
\* service, with the fields the Read persisted.
C19_Witness ==
    \E r \in ItemRes :
        /\ diag[r].op = "ItemRead" /\ diag[r].status = 200 /\ diag[r].err = "none"
        /\ diag[r].sent = <<"GET">> /\ state[r].exists
        /\ Known(Atoi(state[r].ID.value))
        /\ state[r].Name = StringValue(remoteItems[Atoi(state[r].ID.value)].name)

\* Item id on the service is in the persisted state of some instance.
Tracked(id) ==
    \E r \in ItemRes : state[r].exists /\ state[r].ID = StringValue(Itoa(id))

\* C20, as stated: every item on the service is tracked in persisted state,
\* unless the Create that produces it has not returned yet; and an item Create
\* that returns with an error leaves no item behind on the service that is in
\* nobody's persisted state.
C20_CreatedItemsTracked ==
    [][/\ \A id \in Ids :
             (remoteItems'[id].exists /\ ~Tracked(id)') =>
                 \E r \in ItemRes : call'[r].pc # "idle" /\ call'[r].op = "ItemCreate"
       /\ \A r \in ItemRes :
             (ReturnsFromDo(r, "ItemCreate") /\ diag'[r].err # "none") =>
                 \A id \in Ids : remoteItems'[id].exists => Tracked(id)']_vars

\* The service created the item and answered 201, the body broke off: Create
\* reported a parse error, persisted nothing, and the item is on the service.
C20_Witness ==
    \E r \in ItemRes :
        /\ declared = {r}
        /\ diag[r].op = "ItemCreate" /\ diag[r].status = 201
        /\ diag[r].err = "Could not parse API response"
        /\ ~state[r].exists
        /\ \E id \in Ids : remoteItems[id].exists

\* x is a string value: neither null nor unknown.
IsKnownString(x) == ~x.null /\ ~x.unknown

\* C21: the body item Create and item Update send carries the planned name and
\* description, the empty string for a null description; and an item Create,
\* Update or Read that returns without an error and leaves a record persists
\* the id (in decimal), name and description of the response, each a string
\* value that is neither null nor unknown.
C21_NullDescriptionSentEmpty ==
    [][\A r \in ItemRes :
         /\ (/\ call[r].pc = "idle" /\ call'[r].pc # "idle"
             /\ call'[r].op \in {"ItemCreate", "ItemUpdate"}) =>
               /\ call'[r].req.body.kind = "item"
               /\ call'[r].req.body.name = call'[r].model.Name.value
               /\ IsNull(call'[r].model.Description) => call'[r].req.body.description = ""
               /\ ~IsNull(call'[r].model.Description) =>
                     call'[r].req.body.description = call'[r].model.Description.value
         /\ (/\ call[r].pc # "idle" /\ call'[r].pc = "idle"
             /\ call[r].op \in {"ItemCreate", "ItemUpdate", "ItemRead"}
             /\ diag'[r].err = "none" /\ state'[r].exists) =>
               /\ IsKnownString(state'[r].ID)
               /\ IsKnownString(state'[r].Name)
               /\ IsKnownString(state'[r].Description)
               /\ state'[r].ID.value = Itoa(call[r].resp.body.id)
               /\ state'[r].Name.value = call[r].resp.body.name
               /\ state'[r].Description.value = call[r].resp.body.description]_vars

\* The item whose block declares no description was created: every plan of its
\* Create had a null description, and the record persisted holds the empty
\* string the service echoed, a value that is not null.
C21_Witness ==
    /\ declared = ItemRes
    /\ \A plan \in PlansFor("item2") : IsNull(plan.Description)
    /\ diag["item2"].op = "ItemCreate" /\ diag["item2"].err = "none"
    /\ diag["item2"].sent = <<"POST">>
    /\ state["item2"].exists
    /\ state["item2"].Description = StringValue("")
    /\ state["item2"].Description # StringNull

\* C22: a client that Configure handed out has a non-empty endpoint, which is
\* the value of DEMOAPP_ENDPOINT only if the configured endpoint is null (or
\* names the same value); and once Configure has run with a configured endpoint
\* that is not null but empty, it has reported the missing-endpoint error and
\* handed out no client, whatever the environment variable holds.
C22_ExplicitEmptyNotReplaced ==
    /\ ~provider.ResourceData.nil =>
          /\ provider.ResourceData.Endpoint # ""
          /\ provider.ResourceData.Endpoint = provider.env =>
                (IsNull(provider.config) \/ provider.config.value = provider.env)
    /\ ~provider.DataSourceData.nil => provider.DataSourceData.Endpoint # ""
    /\ (/\ provider.configured /\ ~IsNull(provider.config)
        /\ provider.config.value = "") =>
          /\ provider.err = "Missing Demo App Endpoint"
          /\ provider.ResourceData.nil /\ provider.DataSourceData.nil
          /\ \A r \in Res : call[r].pc = "idle" /\ diag[r] = NoDiag

\* Configure has run with the endpoint configured as "" while DEMOAPP_ENDPOINT
\* names a service: the error is reported and no client was handed out.
C22_Witness ==
    /\ provider.config = StringValue("") /\ provider.env = "http://demoapp:8080"
    /\ provider.configured /\ provider.err = "Missing Demo App Endpoint"
    /\ provider.ResourceData.nil /\ provider.DataSourceData.nil

====
